---- MODULE Spec2Model ----
(***************************************************************************)
(* Narrow-phase collision detection between two oriented boxes (OBBs):     *)
(* a model of Collision.hpp.                                               *)
(*                                                                         *)
(* Number representation.  The program computes in float; the model       *)
(* computes the same expressions exactly, on a rational grid:              *)
(*   - lengths (center, halfExtents) are integers, one grid step each;     *)
(*     the spec's examples are stated in steps of 1/2 world unit, so       *)
(*     center (1.5,0,0) is <<3,0,0>> and half-extent 1 is 2;               *)
(*   - a box axis is an integer vector a standing for the unit vector      *)
(*     a / AxDen;                                                          *)
(*   - a point (vertex, contact point) is [p, d], standing for             *)
(*     p / (d * AxDen) grid steps;                                         *)
(*   - a test axis is [v, lsq], standing for v / sqrt(lsq), so that        *)
(*     glm::normalize(v) is [v, v.v] and needs no square root;             *)
(*   - a projection or depth along a test axis is [num, lsq], standing     *)
(*     for num / (AxDen * sqrt(lsq)) grid steps.                           *)
(* Comparisons between such values are made exactly (by cross              *)
(* multiplication or by comparing squares).                                *)
(***************************************************************************)
EXTENDS Integers, Sequences, FiniteSets, TLC

VARIABLES
    pc,            \* position of the caller: "ready", "done", "swapped", ...
    obb1, obb2,    \* the two boxes of the current query
    result,        \* the CollisionResult record handed to SATCollision
    ret,           \* the boolean SATCollision returned last
    result2,       \* the record of the query with the boxes exchanged
    ret2,          \* its return value
    seg,           \* <<p1, q1, p2, q2>>: the two segments of a distance query
    sqDist,        \* what squaredDistanceBetweenEdges returned for seg
    closestEdges,  \* what findClosestEdges returned for obb1, obb2
    eePoint        \* what edgeEdgeCollision returned for obb1, obb2

vars == <<pc, obb1, obb2, result, ret, result2, ret2, seg, sqDist, closestEdges, eePoint>>

----------------------------------------------------------------------------
(* Bounds of the model *)

\* coordinates of the second box's center range up to MaxCenter
MaxCenter == 3
\* uniform half-extents range over 0..MaxHalf
MaxHalf == 2
\* coordinates of the segment end points range up to MaxSeg
MaxSeg == 2

(* Program constants *)

\* denominator of the box axes: an axis a stands for a / AxDen
AxDen == 3
\* std::numeric_limits<float>::max(): above every value on the grid
FLT_MAX == 1000000000

----------------------------------------------------------------------------
(* glm vector primitives *)

Abs(x) == IF x < 0 THEN -x ELSE x

Min2(x, y) == IF x < y THEN x ELSE y

Max2(x, y) == IF x < y THEN y ELSE x

RECURSIVE GCD(_, _)
GCD(x, y) == IF y = 0 THEN Abs(x) ELSE GCD(Abs(y), Abs(x) % Abs(y))

Dot(u, v) == u[1] * v[1] + u[2] * v[2] + u[3] * v[3]

Cross(u, v) ==
    << u[2] * v[3] - v[2] * u[3],
       u[3] * v[1] - v[3] * u[1],
       u[1] * v[2] - v[1] * u[2] >>

VAdd(u, v) == << u[1] + v[1], u[2] + v[2], u[3] + v[3] >>

VSub(u, v) == << u[1] - v[1], u[2] - v[2], u[3] - v[3] >>

VScale(k, u) == << k * u[1], k * u[2], k * u[3] >>

\* glm::normalize(v): the vector v / |v|
Normalize(v) == [v |-> v, lsq |-> Dot(v, v)]

\* a box axis used as a test axis: a / AxDen, which is unit by the caller's contract
UnitAxis(a) == [v |-> a, lsq |-> AxDen * AxDen]

(* Rationals n/d with d > 0, in lowest terms *)

Rat(n, d) ==
    LET g == GCD(n, d)
        s == IF d < 0 THEN -1 ELSE 1
    IN  [n |-> s * (n \div g), d |-> s * (d \div g)]

\* x < y for rationals x, y >= 0, by continued fractions (no products)
RECURSIVE RatLess(_, _)
RatLess(x, y) ==
    LET qx == x.n \div x.d
        qy == y.n \div y.d
        rx == x.n % x.d
        ry == y.n % y.d
    IN  IF qx # qy THEN qx < qy
        ELSE IF ry = 0 THEN FALSE
        ELSE IF rx = 0 THEN TRUE
        ELSE RatLess([n |-> y.d, d |-> ry], [n |-> x.d, d |-> rx])

\* a clamp that leaves its argument as it is
Clamp01_none(x) == x

\* glm::clamp(x, 0.0f, 1.0f)
Clamp01(x) ==
    IF x.n < 0 THEN [n |-> 0, d |-> 1]
    ELSE IF x.n > x.d THEN [n |-> 1, d |-> 1]
    ELSE x

\* a point p / d in lowest terms
Pt(p, d) ==
    LET g == GCD(GCD(GCD(p[1], p[2]), p[3]), d)
    IN  [p |-> << p[1] \div g, p[2] \div g, p[3] \div g >>, d |-> d \div g]

\* sequencing: the value v is computed first and F is applied to it
Then(v, F(_)) == CHOOSE r \in { F(x) : x \in {v} } : TRUE

----------------------------------------------------------------------------
(* struct OBB *)

\* one entry per local axis, as the loops "for (int i = 0; i < 3; ++i)" visit them
AxisIdx == 1 .. 3

\* (i + 1) % 3 and (i + 2) % 3 of the code, for 1-based i
Nxt1(i) == (i % 3) + 1

Nxt2(i) == ((i + 1) % 3) + 1

\* OBB::getVertices: the 8 corners, scaled by AxDen
getVertices(obb) ==
    LET c  == VScale(AxDen, obb.center)
        hX == VScale(obb.halfExtents[1], obb.axes[1])
        hY == VScale(obb.halfExtents[2], obb.axes[2])
        hZ == VScale(obb.halfExtents[3], obb.axes[3])
    IN  << VAdd(VAdd(VAdd(c, hX), hY), hZ),
           VSub(VAdd(VAdd(c, hX), hY), hZ),
           VAdd(VSub(VAdd(c, hX), hY), hZ),
           VSub(VSub(VAdd(c, hX), hY), hZ),
           VAdd(VAdd(VSub(c, hX), hY), hZ),
           VSub(VAdd(VSub(c, hX), hY), hZ),
           VAdd(VSub(VSub(c, hX), hY), hZ),
           VSub(VSub(VSub(c, hX), hY), hZ) >>

\* OBB::getEdges: 12 pairs of vertices, 4 per local axis
getEdges(obb) ==
    LET v == getVertices(obb)
    IN  << <<v[1], v[2]>>, <<v[3], v[4]>>, <<v[5], v[6]>>, <<v[7], v[8]>>,
           <<v[1], v[3]>>, <<v[2], v[4]>>, <<v[5], v[7]>>, <<v[6], v[8]>>,
           <<v[1], v[5]>>, <<v[2], v[6]>>, <<v[3], v[7]>>, <<v[4], v[8]>> >>

----------------------------------------------------------------------------
(* Vertex-face contact recovery *)

\* signedDistanceToPlane, scaled by AxDen * AxDen (point is scaled by AxDen,
\* planeOrigin is a box center in grid steps, planeNormal a box axis)
signedDistanceToPlane(point, planeOrigin, planeNormal) ==
    Dot(VSub(point, VScale(AxDen, planeOrigin)), planeNormal)

\* isPointInFaceBounds; uHalf, vHalf are half-extents in grid steps
isPointInFaceBounds(point, faceCenter, u, v, uHalf, vHalf) ==
    LET rel    == VSub(point, VScale(AxDen, faceCenter))
        uCoord == Dot(rel, u)
        vCoord == Dot(rel, v)
    IN  Abs(uCoord) <= AxDen * AxDen * uHalf /\ Abs(vCoord) <= AxDen * AxDen * vHalf

\* one of the two double loops of vertexFaceCollision: the vertices verts of one
\* box against the three face planes of the box obb; step k is vertex k \div 3,
\* face k % 3; st is [closestDistance, closestPoint]
RECURSIVE vertexFaceScan(_, _, _, _)
vertexFaceScan(verts, obb, k, st) ==
    IF k >= 3 * Len(verts) THEN st
    ELSE
        LET vertex     == verts[(k \div 3) + 1]
            i          == (k % 3) + 1
            faceNormal == obb.axes[i]
            faceCenter == obb.center
            u          == obb.axes[Nxt1(i)]
            v          == obb.axes[Nxt2(i)]
            distance   == signedDistanceToPlane(vertex, faceCenter, faceNormal)
            update     ==
                /\ distance < 0
                /\ isPointInFaceBounds(vertex, faceCenter, u, v,
                                       obb.halfExtents[Nxt1(i)], obb.halfExtents[Nxt2(i)])
                /\ Abs(distance) < st.closestDistance
        IN  IF update
            THEN vertexFaceScan(verts, obb, k + 1,
                     [closestDistance |-> Abs(distance), closestPoint |-> vertex])
            ELSE vertexFaceScan(verts, obb, k + 1, st)

\* vertexFaceCollision: the contact point, scaled by AxDen
vertexFaceCollision(o1, o2) ==
    LET st0 == [closestDistance |-> FLT_MAX, closestPoint |-> <<0, 0, 0>>]
        st1 == vertexFaceScan(getVertices(o1), o2, 0, st0)
        st2 == vertexFaceScan(getVertices(o2), o1, 0, st1)
    IN  Pt(st2.closestPoint, 1)

----------------------------------------------------------------------------
(* Edge-edge contact recovery *)

\* "x <= 1e-6f" for a squared length x: the end points are integer vectors, so
\* x is an integer and 1e-6f lies strictly between 0 and the next value, 1
LeEps(x) == x <= 0

\* p + s * d for a rational s
Along(p, s, d) == Pt(VAdd(VScale(s.d, p), VScale(s.n, d)), s.d)

\* glm::length2(x - y) for two points
Length2Diff(x, y) ==
    LET w == Pt(VSub(VScale(y.d, x.p), VScale(x.d, y.p)), x.d * y.d)
    IN  Rat(Dot(w.p, w.p), w.d * w.d)

\* squaredDistanceBetweenEdges, scaled by AxDen * AxDen
squaredDistanceBetweenEdges(p1, q1, p2, q2) ==
    LET d1 == VSub(q1, p1)
        d2 == VSub(q2, p2)
        r  == VSub(p1, p2)
        a  == Dot(d1, d1)
        e  == Dot(d2, d2)
        f  == Dot(d2, r)
        c  == Dot(d1, r)
        b  == Dot(d1, d2)
        denom == a * e - b * b
        zero == [n |-> 0, d |-> 1]
        s  == IF LeEps(a) THEN zero
              ELSE IF LeEps(e) THEN Clamp01(Rat(-c, a))
              ELSE IF denom # 0 THEN Clamp01(Rat(b * f - c * e, denom))
              ELSE zero
        t  == IF LeEps(a) THEN Clamp01(Rat(f, e))
              ELSE IF LeEps(e) THEN zero
              ELSE Clamp01(Rat(b * s.n + f * s.d, e * s.d))
        c1 == Along(p1, s, d1)
        c2 == Along(p2, t, d2)
    IN  IF LeEps(a) /\ LeEps(e) THEN Rat(Dot(r, r), 1)
        ELSE Length2Diff(c1, c2)

\* the distance findClosestEdges computes at step k of its two nested loops:
\* edge k \div 12 of the first box against edge k % 12 of the second
edgePairDistance(edges1, edges2, k) ==
    LET edge1 == edges1[(k \div Len(edges2)) + 1]
        edge2 == edges2[(k % Len(edges2)) + 1]
    IN  squaredDistanceBetweenEdges(edge1[1], edge1[2], edge2[1], edge2[2])

\* the step at which the loops of findClosestEdges last replace the tracked
\* pair, given the set measured of <<step, distSquared>>.  The pair is replaced
\* only when distSquared is strictly below minDistanceSquared, which starts at
\* FLT_MAX, so the last replacement is at the first step that attains the
\* least distance; -1 when no step is below FLT_MAX
trackedStep(measured) ==
    Then({ m \in measured : RatLess(m[2], [n |-> FLT_MAX, d |-> 1]) },
         LAMBDA below :
             IF below = {} THEN -1
             ELSE Then(CHOOSE m \in below : \A q \in below : ~RatLess(q[2], m[2]),
                       LAMBDA least :
                           Then({ m[1] : m \in { q \in below : q[2] = least[2] } },
                                LAMBDA at : CHOOSE k \in at : \A j \in at : k <= j)))

\* findClosestEdges; closestEdges is assigned at the first pair, every distance
\* on the grid being below FLT_MAX, so its value before that is never returned
findClosestEdges(o1, o2) ==
    LET edges1 == getEdges(o1)
        edges2 == getEdges(o2)
        steps == 0 .. (Len(edges1) * Len(edges2) - 1)
        zeroEdge == << <<0, 0, 0>>, <<0, 0, 0>> >>
    IN  Then({ <<k, edgePairDistance(edges1, edges2, k)>> : k \in steps },
             LAMBDA measured :
                 LET k == trackedStep(measured)
                 IN  IF k < 0 THEN <<zeroEdge, zeroEdge>>
                     ELSE <<edges1[(k \div Len(edges2)) + 1], edges2[(k % Len(edges2)) + 1]>>)

\* closestPointBetweenLines
closestPointBetweenLines(p1, q1, p2, q2) ==
    LET d1 == VSub(q1, p1)
        d2 == VSub(q2, p2)
        r  == VSub(p1, p2)
        a  == Dot(d1, d1)
        e  == Dot(d2, d2)
        f  == Dot(d2, r)
        c  == Dot(d1, r)
        b  == Dot(d1, d2)
        denom == a * e - b * b
        zero == [n |-> 0, d |-> 1]
        s  == IF LeEps(a) THEN zero
              ELSE IF LeEps(e) THEN Clamp01(Rat(-c, a))
              ELSE IF denom # 0 THEN Clamp01(Rat(b * f - c * e, denom))
              ELSE zero
        t  == IF LeEps(a) THEN Clamp01(Rat(f, e))
              ELSE IF LeEps(e) THEN zero
              ELSE Clamp01(Rat(b * s.n + f * s.d, e * s.d))
        c1 == Along(p1, s, d1)
        c2 == Along(p2, t, d2)
    IN  IF LeEps(a) /\ LeEps(e) THEN Pt(p1, 1)
        ELSE IF RatLess(Length2Diff(c1, Pt(p1, 1)), Length2Diff(c2, Pt(p2, 1)))
             THEN c1
             ELSE c2

\* edgeEdgeCollision
edgeEdgeCollision(o1, o2) ==
    Then(findClosestEdges(o1, o2),
         LAMBDA closest :
             closestPointBetweenLines(closest[1][1], closest[1][2],
                                      closest[2][1], closest[2][2]))

----------------------------------------------------------------------------
(* Axis projection and overlap test *)

\* projectOBB without the absolute values in extent
projectOBB_noAbs(obb, axis) ==
    LET centerProjection == AxDen * Dot(obb.center, axis.v)
        extent == obb.halfExtents[1] * Dot(obb.axes[1], axis.v) +
                  obb.halfExtents[2] * Dot(obb.axes[2], axis.v) +
                  obb.halfExtents[3] * Dot(obb.axes[3], axis.v)
    IN  [min |-> centerProjection - extent, max |-> centerProjection + extent]

\* projectOBB: min and max of the box's projection on axis, each scaled by
\* AxDen * sqrt(axis.lsq)
projectOBB(obb, axis) ==
    LET centerProjection == AxDen * Dot(obb.center, axis.v)
        extent == obb.halfExtents[1] * Abs(Dot(obb.axes[1], axis.v)) +
                  obb.halfExtents[2] * Abs(Dot(obb.axes[2], axis.v)) +
                  obb.halfExtents[3] * Abs(Dot(obb.axes[3], axis.v))
    IN  [min |-> centerProjection - extent, max |-> centerProjection + extent]

\* noOverlap with "and" in place of "or"
noOverlap_both(min1, max1, min2, max2) == max1 < min2 /\ max2 < min1

\* noOverlap that counts touching intervals as apart
noOverlap_orEqual(min1, max1, min2, max2) == max1 <= min2 \/ max2 <= min1

\* the test "max1 < min2 || max2 < min1" of overlapOnAxis
noOverlap(min1, max1, min2, max2) == max1 < min2 \/ max2 < min1

\* overlapLength measured from the first interval's end only
overlapLength_fromFirst(min1, max1, min2, max2) == max1 - min2

\* the overlap length computed by overlapOnAxis
overlapLength(min1, max1, min2, max2) == Min2(max1, max2) - Max2(min1, min2)

\* overlapOnAxis: the boolean it returns and the depth it stores
overlapOnAxis(o1, o2, axis) ==
    LET i1 == projectOBB(o1, axis)
        i2 == projectOBB(o2, axis)
    IN  IF noOverlap(i1.min, i1.max, i2.min, i2.max)
        THEN [overlap |-> FALSE, penetrationDepth |-> [num |-> 0, lsq |-> 1]]
        ELSE [overlap |-> TRUE,
              penetrationDepth |->
                  [num |-> overlapLength(i1.min, i1.max, i2.min, i2.max),
                   lsq |-> axis.lsq]]

----------------------------------------------------------------------------
(* SAT driver *)

\* the initial minPenetrationDepth
FltMaxDepth == [num |-> FLT_MAX, lsq |-> 1]

\* x < y for two depths x = x.num / sqrt(x.lsq), y = y.num / sqrt(y.lsq),
\* by comparing squares; FLT_MAX is above every depth on the grid
DepthLess(x, y) ==
    IF y = FltMaxDepth THEN x # FltMaxDepth
    ELSE IF x = FltMaxDepth THEN FALSE
    ELSE
        LET l == x.num * x.num * y.lsq
            r == y.num * y.num * x.lsq
        IN  IF x.num < 0 /\ y.num >= 0 THEN TRUE
            ELSE IF x.num >= 0 /\ y.num < 0 THEN FALSE
            ELSE IF x.num >= 0 THEN l < r
            ELSE r < l

\* isSmaller with <= in place of <
isSmaller_orEqual(penetrationDepth, minPenetrationDepth) ==
    ~DepthLess(minPenetrationDepth, penetrationDepth)

\* the test "penetrationDepth < minPenetrationDepth" that tracks the smallest axis
isSmaller(penetrationDepth, minPenetrationDepth) ==
    DepthLess(penetrationDepth, minPenetrationDepth)

\* "glm::length(crossAxis) > 1e-6f": crossAxis is an integer vector standing for
\* crossAxis / AxDen^2, so its length is 0 or at least 1 / AxDen^2 > 1e-6
nonDegenerate(crossAxis) == Dot(crossAxis, crossAxis) > 0

\* the nine cross products in the order of the loops over i and j
crossAxes(o1, o2) ==
    [k \in 1 .. 9 |-> Cross(o1.axes[((k - 1) \div 3) + 1], o2.axes[((k - 1) % 3) + 1])]

\* testAxes[0 .. idx-1]
testAxes(o1, o2) ==
    LET kept == SelectSeq(crossAxes(o1, o2), nonDegenerate)
    IN  << UnitAxis(o1.axes[1]), UnitAxis(o1.axes[2]), UnitAxis(o1.axes[3]),
           UnitAxis(o2.axes[1]), UnitAxis(o2.axes[2]), UnitAxis(o2.axes[3]) >>
        \o [k \in 1 .. Len(kept) |-> Normalize(kept[k])]

\* the loop "for (int i = 0; i < idx; ++i)" from axis i on (i is 0-based);
\* st is [separated, minPenetrationDepth, smallestAxis, axisType]
RECURSIVE overlapLoop(_, _, _, _, _)
overlapLoop(o1, o2, axes, i, st) ==
    IF i >= Len(axes) THEN st
    ELSE
        LET axis == axes[i + 1]
            ov   == overlapOnAxis(o1, o2, axis)
        IN  IF ~ov.overlap THEN [st EXCEPT !.separated = TRUE]
            ELSE IF isSmaller(ov.penetrationDepth, st.minPenetrationDepth)
            THEN overlapLoop(o1, o2, axes, i + 1,
                     [st EXCEPT !.minPenetrationDepth = ov.penetrationDepth,
                                !.smallestAxis = axis,
                                !.axisType = i])
            ELSE overlapLoop(o1, o2, axes, i + 1, st)

\* a false return that also clears collisionDetected
separatedResult_cleared(res) == [res EXCEPT !.collisionDetected = FALSE]

\* what the record holds when SATCollision returns false
separatedResult(res) == res

\* what the record holds when SATCollision returns true
collisionResult(o1, o2, res, st) ==
    LET r1 == [res EXCEPT !.collisionDetected = TRUE,
                          !.penetrationDepth = st.minPenetrationDepth,
                          !.collisionNormal = st.smallestAxis]
    IN  IF st.axisType >= 0 /\ st.axisType <= 5
        THEN [r1 EXCEPT !.collisionType = "vertex-face",
                        !.contactPoint = vertexFaceCollision(o1, o2)]
        ELSE IF st.axisType >= 6 /\ st.axisType <= 14
        THEN [r1 EXCEPT !.collisionType = "edge-edge",
                        !.contactPoint = edgeEdgeCollision(o1, o2)]
        ELSE r1

\* SATCollision(obb1, obb2, result): the boolean returned and the record after
SATCollision(o1, o2, res) ==
    LET st0 == [separated |-> FALSE,
                minPenetrationDepth |-> FltMaxDepth,
                smallestAxis |-> [v |-> <<0, 0, 0>>, lsq |-> 1],
                axisType |-> -1]
        st  == overlapLoop(o1, o2, testAxes(o1, o2), 0, st0)
    IN  IF st.separated
        THEN [ret |-> FALSE, result |-> separatedResult(res)]
        ELSE [ret |-> TRUE, result |-> collisionResult(o1, o2, res, st)]

----------------------------------------------------------------------------
(* Inputs *)

IdentityAxes == << <<3, 0, 0>>, <<0, 3, 0>>, <<0, 0, 3>> >>

\* a rotation with rational entries: the rows of (1/3) [2 2 -1; -1 2 2; 2 -1 2]
TiltedAxes == << <<2, 2, -1>>, <<-1, 2, 2>>, <<2, -1, 2>> >>

Orientations == {IdentityAxes, TiltedAxes}

Box(c, h, ax) == [center |-> c, halfExtents |-> h, axes |-> ax]

Origin == <<0, 0, 0>>

\* the first box of a query
Boxes1 ==
    { Box(Origin, h, ax) :
        h \in {<<2, 2, 2>>, <<1, 2, 3>>}, ax \in Orientations }
    \cup { Box(Origin, <<MaxHalf + 2, MaxHalf + 2, MaxHalf + 2>>, IdentityAxes),
           Box(<<1, 0, -1>>, <<2, 1, 2>>, IdentityAxes) }

Centers2 ==
    { <<x, y, z>> : x \in -MaxCenter .. MaxCenter,
                    y \in {0, 2, MaxCenter},
                    z \in {-1, 0, MaxCenter - 1} }

\* the second box of a query
Boxes2 ==
    { Box(c, h, ax) :
        c \in Centers2,
        h \in { <<k, k, k>> : k \in 0 .. MaxHalf } \cup { <<2, 1, 1>> },
        ax \in Orientations }

\* a CollisionResult as constructed: collisionDetected = false, collisionType
\* empty, and the three members without initializer hold indeterminate values
FreshResults ==
    { [collisionDetected |-> FALSE,
       collisionNormal |-> [v |-> n, lsq |-> 1],
       penetrationDepth |-> [num |-> d, lsq |-> 1],
       contactPoint |-> [p |-> n, d |-> 1],
       collisionType |-> ""] :
      <<n, d>> \in { << <<0, 0, 0>>, 0 >>, << <<1, 2, 3>>, 7 >> } }

NoSeg == << Origin, Origin, Origin, Origin >>

NoRat == [n |-> 0, d |-> 1]

NoPoint == [p |-> Origin, d |-> 1]

NoEdges == << <<Origin, Origin>>, <<Origin, Origin>> >>

NoBox == Box(Origin, Origin, IdentityAxes)

----------------------------------------------------------------------------
(* The caller's steps *)

\* the caller runs SATCollision(a, b, result)
Call(a, b) ==
    /\ obb1' = a
    /\ obb2' = b
    /\ \E out \in { SATCollision(a, b, result) } :
           /\ ret' = out.ret
           /\ result' = out.result

\* the caller runs SATCollision(obb2, obb1, result2): the same two boxes,
\* exchanged, into a second record
CallSwapped ==
    \E out \in { SATCollision(obb2, obb1, result2) } :
        /\ ret2' = out.ret
        /\ result2' = out.result

----------------------------------------------------------------------------
(* Spec: one query, then the same query with the boxes exchanged *)

Init ==
    /\ pc = "ready"
    /\ obb1 \in Boxes1
    /\ obb2 \in Boxes2
    /\ result \in FreshResults
    /\ ret = FALSE
    /\ result2 = result
    /\ ret2 = FALSE
    /\ seg = NoSeg
    /\ sqDist = NoRat
    /\ closestEdges = NoEdges
    /\ eePoint = NoPoint

Query ==
    /\ pc = "ready"
    /\ Call(obb1, obb2)
    /\ pc' = "done"
    /\ UNCHANGED <<result2, ret2, seg, sqDist, closestEdges, eePoint>>

QuerySwapped ==
    /\ pc = "done"
    /\ CallSwapped
    /\ pc' = "swapped"
    /\ UNCHANGED <<obb1, obb2, result, ret, seg, sqDist, closestEdges, eePoint>>

Next == Query \/ QuerySwapped

Spec == Init /\ [][Next]_vars

----------------------------------------------------------------------------
(* SpecSeq: any sequence of queries that pass the same record *)

SeqBoxes ==
    { Box(Origin, <<2, 2, 2>>, IdentityAxes),
      Box(<<3, 0, 0>>, <<2, 2, 2>>, IdentityAxes),
      Box(<<6, 1, 0>>, <<1, 2, 1>>, IdentityAxes),
      Box(<<2, 2, 2>>, <<1, 1, 1>>, TiltedAxes),
      Box(<<0, 4, 3>>, <<2, 1, 2>>, TiltedAxes) }

InitSeq ==
    /\ pc = "idle"
    /\ obb1 = NoBox
    /\ obb2 = NoBox
    /\ result \in FreshResults
    /\ ret = FALSE
    /\ result2 = result
    /\ ret2 = FALSE
    /\ seg = NoSeg
    /\ sqDist = NoRat
    /\ closestEdges = NoEdges
    /\ eePoint = NoPoint

QueryAgain ==
    /\ \E a \in SeqBoxes, b \in SeqBoxes : Call(a, b)
    /\ pc' = "called"
    /\ UNCHANGED <<result2, ret2, seg, sqDist, closestEdges, eePoint>>

NextSeq == QueryAgain

SpecSeq == InitSeq /\ [][NextSeq]_vars

----------------------------------------------------------------------------
(* SpecEdge: the edge routines applied to their inputs *)

SegPoints1 == { <<x, y, 0>> : x \in 0 .. MaxSeg, y \in 0 .. MaxSeg }

SegPoints2 == { <<x, y, z>> : x \in -1 .. MaxSeg, y \in -1 .. MaxSeg, z \in {0, 1} }

EdgeBoxes1 ==
    { Box(Origin, h, ax) : h \in {<<2, 2, 2>>, <<1, 2, 3>>}, ax \in Orientations }
    \cup { Box(Origin, Origin, IdentityAxes) }

EdgeBoxes2 ==
    { Box(<<x, y, z>>, <<k, k, k>>, ax) :
        x \in 0 .. MaxCenter, y \in {0, 1}, z \in {0, 2},
        k \in 0 .. MaxHalf, ax \in Orientations }

InitEdge ==
    /\ result \in FreshResults
    /\ ret = FALSE
    /\ result2 = result
    /\ ret2 = FALSE
    /\ sqDist = NoRat
    /\ closestEdges = NoEdges
    /\ eePoint = NoPoint
    /\ \/ /\ pc = "segments"
          /\ seg \in { <<Origin, q1, p2, q2>> :
                         q1 \in SegPoints1, p2 \in SegPoints2, q2 \in SegPoints2 }
          /\ obb1 = NoBox
          /\ obb2 = NoBox
       \/ /\ pc = "boxes"
          /\ seg = NoSeg
          /\ obb1 \in EdgeBoxes1
          /\ obb2 \in EdgeBoxes2

\* squaredDistanceBetweenEdges(p1, q1, p2, q2)
SquaredDistance ==
    /\ pc = "segments"
    /\ sqDist' = squaredDistanceBetweenEdges(seg[1], seg[2], seg[3], seg[4])
    /\ pc' = "measured"
    /\ UNCHANGED <<obb1, obb2, result, ret, result2, ret2, seg, closestEdges, eePoint>>

\* edgeEdgeCollision(obb1, obb2), with the edge pair findClosestEdges gave it
EdgeEdge ==
    /\ pc = "boxes"
    /\ closestEdges' = findClosestEdges(obb1, obb2)
    /\ eePoint' = edgeEdgeCollision(obb1, obb2)
    /\ pc' = "contact"
    /\ UNCHANGED <<obb1, obb2, result, ret, result2, ret2, seg, sqDist>>

NextEdge == SquaredDistance \/ EdgeEdge

SpecEdge == InitEdge /\ [][NextEdge]_vars

----------------------------------------------------------------------------
(* Geometry used to state the properties, computed from the boxes' corners   *)
(* and not by the routines above                                             *)

SetMin(S) == CHOOSE x \in S : \A y \in S : x <= y

SetMax(S) == CHOOSE x \in S : \A y \in S : y <= x

Corners(b) == { getVertices(b)[k] : k \in 1 .. 8 }

\* the interval the corners of b cover along axis, in the scale of projectOBB
CornerInterval(b, axis) ==
    Then({ Dot(v, axis.v) : v \in Corners(b) },
         LAMBDA S : [min |-> SetMin(S), max |-> SetMax(S)])

\* the length two intervals have in common (negative when they are apart)
Common(i1, i2) == Min2(i1.max, i2.max) - Max2(i1.min, i2.min)

Apart(i1, i2) == i1.max < i2.min \/ i2.max < i1.min

Touching(i1, i2) == i1.max = i2.min \/ i2.max = i1.min

AxisAligned(b) == b.axes = IdentityAxes

\* the interval an axis-aligned box covers along world axis k, in grid steps
WorldInterval(b, k) ==
    [min |-> b.center[k] - b.halfExtents[k], max |-> b.center[k] + b.halfExtents[k]]

\* the depth d equals g grid steps
DepthIs(d, g) ==
    d.num >= 0 /\ g >= 0 /\ d.num * d.num = g * g * AxDen * AxDen * d.lsq

\* two depths are the same number
DepthEq(x, y) ==
    /\ (x.num >= 0) = (y.num >= 0)
    /\ x.num * x.num * y.lsq = y.num * y.num * x.lsq

\* every corner of inner lies in the axis-aligned box outer
Inside(inner, outer) ==
    /\ AxisAligned(outer)
    /\ \A v \in Corners(inner), k \in AxisIdx :
         Abs(v[k] - AxDen * outer.center[k]) <= AxDen * outer.halfExtents[k]

\* the point x lies on the segment from p to q
OnSegment(x, p, q) ==
    LET w == VSub(x.p, VScale(x.d, p))
        d == VSub(q, p)
    IN  /\ Cross(w, d) = <<0, 0, 0>>
        /\ 0 <= Dot(w, d)
        /\ Dot(w, d) <= x.d * Dot(d, d)
        /\ (d = <<0, 0, 0>> => w = <<0, 0, 0>>)

OnSomeEdge(x, b) == \E k \in 1 .. 12 : OnSegment(x, getEdges(b)[k][1], getEdges(b)[k][2])

Queried == pc \in {"done", "swapped", "called"}

----------------------------------------------------------------------------
(* Properties of SATCollision *)

SeparatedOnWorldAxis ==
    /\ AxisAligned(obb1)
    /\ AxisAligned(obb2)
    /\ \E k \in AxisIdx : Apart(WorldInterval(obb1, k), WorldInterval(obb2, k))

\* C1: for two axis-aligned boxes whose intervals are disjoint on at least one
\* world axis, SATCollision returns false
C1_SeparatedAxisAlignedMiss == (Queried /\ SeparatedOnWorldAxis) => ret = FALSE

\* a query of two axis-aligned boxes where the second lies wholly below the
\* first on a world axis, and one where it lies wholly above
C1_Witness ==
    /\ pc = "done"
    /\ SeparatedOnWorldAxis
    /\ \E k \in AxisIdx : WorldInterval(obb2, k).max < WorldInterval(obb1, k).min
    /\ ret = FALSE

OverlapOnWorldAxes ==
    /\ AxisAligned(obb1)
    /\ AxisAligned(obb2)
    /\ \A k \in AxisIdx : ~Apart(WorldInterval(obb1, k), WorldInterval(obb2, k))

\* C2: for two axis-aligned boxes whose intervals overlap on all three world
\* axes, SATCollision returns true, sets collisionDetected, reports the
\* smallest of the three world-axis overlap lengths as depth and the type
\* "vertex-face"
C2_OverlapAxisAlignedHit ==
    (Queried /\ OverlapOnWorldAxes) =>
        /\ ret = TRUE
        /\ result.collisionDetected = TRUE
        /\ DepthIs(result.penetrationDepth,
                   SetMin({ Common(WorldInterval(obb1, k), WorldInterval(obb2, k)) :
                              k \in AxisIdx }))
        /\ result.collisionType = "vertex-face"

\* the spec's example in half units: centers (0,0,0) and (1.5,0,0), half-extents
\* (1,1,1) each, depth 0.5
C2_Witness ==
    /\ pc = "done"
    /\ obb1 = Box(Origin, <<2, 2, 2>>, IdentityAxes)
    /\ obb2 = Box(<<3, 0, 0>>, <<2, 2, 2>>, IdentityAxes)
    /\ ret = TRUE
    /\ DepthIs(result.penetrationDepth, 1)
    /\ result.collisionType = "vertex-face"

\* a record none of whose members a query could have written
Poisoned ==
    [collisionDetected |-> FALSE,
     collisionNormal |-> [v |-> <<0, 0, 0>>, lsq |-> -1],
     penetrationDepth |-> [num |-> -1, lsq |-> -1],
     contactPoint |-> [p |-> <<0, 0, 0>>, d |-> -1],
     collisionType |-> "poisoned"]

\* C3: in a sequence of calls that pass the same record, a call that returns
\* false leaves every member of the record as it was, and a call that returns
\* true sets collisionDetected and writes normal, depth, contact point and type
\* (what it leaves does not depend on what the record held)
C3_RecordFrame ==
    [][ /\ (ret' = FALSE => result' = result)
        /\ (ret' = TRUE =>
              /\ result'.collisionDetected = TRUE
              /\ result' = SATCollision(obb1', obb2', Poisoned).result
              /\ result'.collisionNormal # Poisoned.collisionNormal
              /\ result'.penetrationDepth # Poisoned.penetrationDepth
              /\ result'.contactPoint # Poisoned.contactPoint
              /\ result'.collisionType # Poisoned.collisionType) ]_vars

\* a call returned false after an earlier call had filled the record, and the
\* record still holds what the earlier call wrote
C3_Witness ==
    /\ pc = "called"
    /\ ret = FALSE
    /\ result.collisionDetected = TRUE
    /\ result.collisionType = "edge-edge"

\* C4: whenever SATCollision returns true with type "vertex-face", the contact
\* point is one of the 8 corners of obb1 or one of the 8 corners of obb2
C4_ContactIsCorner ==
    (Queried /\ ret = TRUE /\ result.collisionType = "vertex-face") =>
        \E v \in Corners(obb1) \cup Corners(obb2) : result.contactPoint = Pt(v, 1)

\* C5: SATCollision(A, B, r1) and SATCollision(B, A, r2) return the same
\* boolean, and when they return true the two depths are equal
C5_SwapSymmetry ==
    pc = "swapped" =>
        /\ ret = ret2
        /\ (ret = TRUE => DepthEq(result.penetrationDepth, result2.penetrationDepth))

\* both queries hit and report normals that differ
C5_Witness ==
    /\ pc = "swapped"
    /\ ret = TRUE
    /\ ret2 = TRUE
    /\ result.collisionNormal # result2.collisionNormal
    /\ result.collisionType = "edge-edge"

\* the pairs of intervals the two boxes cover along the tested axes
AxisIntervals(o1, o2) ==
    Then(testAxes(o1, o2),
         LAMBDA axes :
             { <<CornerInterval(o1, axes[k]), CornerInterval(o2, axes[k])>> :
                 k \in DOMAIN axes })

TouchingOnSomeAxis ==
    Then(AxisIntervals(obb1, obb2),
         LAMBDA pairs :
             /\ \E i \in pairs : Touching(i[1], i[2])
             /\ \A i \in pairs : ~Apart(i[1], i[2]))

\* C6: for two boxes that touch with zero gap on one axis and overlap on the
\* others, SATCollision returns true and the depth is 0
C6_TouchingHit ==
    (Queried /\ TouchingOnSomeAxis) =>
        /\ ret = TRUE
        /\ result.penetrationDepth.num = 0

\* two boxes of positive size touch face to face
C6_Witness ==
    /\ pc = "done"
    /\ TouchingOnSomeAxis
    /\ obb1.halfExtents # Origin
    /\ obb2.halfExtents # Origin
    /\ AxisAligned(obb1)
    /\ AxisAligned(obb2)
    /\ ret = TRUE
    /\ result.penetrationDepth.num = 0

\* the extent of box b along axis, as a depth
ExtentAlong(b, axis) ==
    Then(CornerInterval(b, axis),
         LAMBDA i : [num |-> i.max - i.min, lsq |-> axis.lsq])

ContainedDepth(inner, outer) ==
    /\ ret = TRUE
    /\ DepthEq(result.penetrationDepth, ExtentAlong(inner, result.collisionNormal))
    /\ Then(testAxes(obb1, obb2),
            LAMBDA axes :
                \A k \in DOMAIN axes :
                    ~DepthLess(ExtentAlong(inner, axes[k]), result.penetrationDepth))

\* C7: if one box lies entirely inside an axis-aligned box, SATCollision returns
\* true and the depth is the contained box's full extent along the reported
\* axis, which is the smallest such extent over all tested axes
C7_ContainedDepth ==
    /\ (Queried /\ Inside(obb2, obb1)) => ContainedDepth(obb2, obb1)
    /\ (Queried /\ Inside(obb1, obb2)) => ContainedDepth(obb1, obb2)

\* a tilted box of positive size inside the big axis-aligned box
C7_Witness ==
    /\ pc = "done"
    /\ Inside(obb2, obb1)
    /\ obb2.axes = TiltedAxes
    /\ obb2.halfExtents # Origin
    /\ obb1 # obb2
    /\ ret = TRUE

\* <<index, axis, overlap>> for every tested axis, the index 0-based
AxisOverlaps(o1, o2) ==
    Then(testAxes(o1, o2),
         LAMBDA axes :
             { << k - 1, axes[k],
                  [num |-> Common(CornerInterval(o1, axes[k]), CornerInterval(o2, axes[k])),
                   lsq |-> axes[k].lsq] >> :
               k \in DOMAIN axes })

\* the first tested axis that attains the minimum overlap
FirstMinimum(overlaps) ==
    CHOOSE m \in overlaps :
        \A q \in overlaps :
            IF q[1] < m[1] THEN DepthLess(m[3], q[3]) ELSE ~DepthLess(q[3], m[3])

\* C9: whenever SATCollision returns true, the depth is the minimum overlap
\* over the tested axes and is >= 0, the normal is the first axis in the
\* candidate order that attains it, and the type is "vertex-face" exactly when
\* that axis has index 0..5 and "edge-edge" exactly when it has index 6..14
C9_MinimumAxis ==
    (Queried /\ ret = TRUE) =>
        Then(FirstMinimum(AxisOverlaps(obb1, obb2)),
             LAMBDA m :
                 /\ result.penetrationDepth = m[3]
                 /\ result.penetrationDepth.num >= 0
                 /\ result.collisionNormal = m[2]
                 /\ (result.collisionType = "vertex-face") = (m[1] \in 0 .. 5)
                 /\ (result.collisionType = "edge-edge") = (m[1] \in 6 .. 14))

\* an edge axis attains a minimum no face axis attains
C9_Witness ==
    /\ pc = "done"
    /\ ret = TRUE
    /\ result.collisionType = "edge-edge"
    /\ result.penetrationDepth.num > 0
    /\ FirstMinimum(AxisOverlaps(obb1, obb2))[1] >= 6

----------------------------------------------------------------------------
(* Properties of the edge routines *)

\* C8: the point edgeEdgeCollision returns lies on one of the 12 edges of obb1
\* or one of the 12 edges of obb2: it is p + u * (q - p) for an edge (p, q) and
\* some u in [0, 1]
C8_ContactOnEdge ==
    pc = "contact" => (OnSomeEdge(eePoint, obb1) \/ OnSomeEdge(eePoint, obb2))

\* two boxes of positive size, and a contact point strictly inside an edge
C8_Witness ==
    /\ pc = "contact"
    /\ obb1.halfExtents # Origin
    /\ obb2.halfExtents # Origin
    /\ eePoint.d > 1
    /\ OnSomeEdge(eePoint, obb1) \/ OnSomeEdge(eePoint, obb2)

RatMin(S) == CHOOSE x \in S : \A y \in S : ~RatLess(y, x)

\* the squared distance from the point p to the segment from a to b
PointSegment(p, a, b) ==
    LET d == VSub(b, a)
        e == Dot(d, d)
        u == Dot(VSub(p, a), d)
    IN  IF e = 0 THEN Rat(Dot(VSub(p, a), VSub(p, a)), 1)
        ELSE IF u <= 0 THEN Rat(Dot(VSub(p, a), VSub(p, a)), 1)
        ELSE IF u >= e THEN Rat(Dot(VSub(p, b), VSub(p, b)), 1)
        ELSE Length2Diff(Along(a, Rat(u, e), d), Pt(p, 1))

\* the squared distance between the two lines where the closest points of the
\* lines lie within both segments (no value otherwise)
InteriorDistance(p1, q1, p2, q2) ==
    LET d1 == VSub(q1, p1)
        d2 == VSub(q2, p2)
        r  == VSub(p1, p2)
        a  == Dot(d1, d1)
        e  == Dot(d2, d2)
        f  == Dot(d2, r)
        c  == Dot(d1, r)
        b  == Dot(d1, d2)
        denom == a * e - b * b
        sn == b * f - c * e
        tn == a * f - b * c
    IN  IF denom > 0 /\ 0 <= sn /\ sn <= denom /\ 0 <= tn /\ tn <= denom
        THEN { Length2Diff(Along(p1, Rat(sn, denom), d1), Along(p2, Rat(tn, denom), d2)) }
        ELSE {}

\* min over s, t in [0,1] of |p1 + s*(q1-p1) - (p2 + t*(q2-p2))|^2: the minimum
\* of a convex function over the unit square is attained at an interior
\* stationary point or on one of the four sides
TrueSquaredDistance(p1, q1, p2, q2) ==
    RatMin({ PointSegment(p1, p2, q2), PointSegment(q1, p2, q2),
             PointSegment(p2, p1, q1), PointSegment(q2, p1, q1) }
           \cup InteriorDistance(p1, q1, p2, q2))

\* C10: squaredDistanceBetweenEdges returns the minimum over all s, t in [0,1]
\* of the squared distance between the points at s and t of the two segments,
\* and the pair findClosestEdges returns has the smallest true distance of all
\* 144 pairs
C10_TrueMinimum ==
    /\ pc = "measured" =>
         sqDist = TrueSquaredDistance(seg[1], seg[2], seg[3], seg[4])
    /\ pc = "contact" =>
         \A j, k \in 1 .. 12 :
             ~RatLess(TrueSquaredDistance(getEdges(obb1)[j][1], getEdges(obb1)[j][2],
                                          getEdges(obb2)[k][1], getEdges(obb2)[k][2]),
                      TrueSquaredDistance(closestEdges[1][1], closestEdges[1][2],
                                          closestEdges[2][1], closestEdges[2][2]))

====
